---- MODULE Spec2Model ----
(***************************************************************************)
(* A model of minbpe's BasicTokenizer (src/minbpe/basic.py): byte-level    *)
(* Byte Pair Encoding with an optional regular-expression chunk splitter.  *)
(*                                                                         *)
(* Texts are sequences of Unicode code points, bytes and token ids are     *)
(* integers, a Python dict is an insertion-ordered sequence of <<key,      *)
(* value>> entries (the vocabulary, whose order is never read, is a        *)
(* function).  The loops of train and _encode_chunk take one step per      *)
(* iteration.                                                              *)
(***************************************************************************)
EXTENDS Integers, Sequences, FiniteSets, TLC

\* ---------------------------------------------------------------- bounds
\* The greatest length, in UTF-8 bytes, of a training text and of a text to
\* encode, and the greatest number of merges asked for.
MaxTrainLen == 4
MaxTextLen == 3
MaxMerges == 2

\* The code points texts are drawn from: ' ' (whitespace), 'a' (a letter) and
\* U+00E9 (a letter whose UTF-8 form has two bytes).
Chars == {32, 97, 233}
\* \p{L}, \p{N} and \s among the code points the splitter is given
Letters == {97, 233}
Digits == 48..57
Spaces == {32}

\* range(256): the byte alphabet
NumBytes == 256
\* U+FFFD, what errors="replace" substitutes
ReplacementChar == 65533

VocabSizes == (NumBytes - 1)..(NumBytes + MaxMerges)

\* ------------------------------------------------------------ sequences
RECURSIVE Flatten(_)
Flatten(ss) == IF ss = <<>> THEN <<>> ELSE Head(ss) \o Flatten(Tail(ss))

\* --------------------------------------------------------- Python dicts
\* An insertion-ordered dict: d[k] = v keeps k's place when k is present.
EmptyDict == <<>>
DictHas(d, k) == \E j \in 1..Len(d) : d[j][1] = k
DictGet(d, k) == d[CHOOSE j \in 1..Len(d) : d[j][1] = k][2]
DictPut(d, k, v) ==
    IF DictHas(d, k)
    THEN [j \in 1..Len(d) |-> IF d[j][1] = k THEN <<k, v>> ELSE d[j]]
    ELSE Append(d, <<k, v>>)

\* ------------------------------------------------------------- UTF-8
\* str.encode("utf-8") of one code point (no surrogates in Chars)
Utf8Char(c) ==
    IF c < 128 THEN <<c>>
    ELSE IF c < 2048 THEN <<192 + (c \div 64), 128 + (c % 64)>>
    ELSE IF c < 65536
         THEN <<224 + (c \div 4096), 128 + ((c \div 64) % 64), 128 + (c % 64)>>
         ELSE <<240 + (c \div 262144), 128 + ((c \div 4096) % 64),
                128 + ((c \div 64) % 64), 128 + (c % 64)>>

RECURSIVE Utf8Encode(_)
Utf8Encode(text) ==
    IF text = <<>> THEN <<>> ELSE Utf8Char(Head(text)) \o Utf8Encode(Tail(text))

\* The texts over Chars of at most n bytes
TextsUpTo(n) ==
    {t \in UNION {[1..k -> Chars] : k \in 0..n} : Len(Utf8Encode(t)) <= n}

IsCont(b) == 128 <= b /\ b <= 191

Drop(s, n) == SubSeq(s, n + 1, Len(s))

\* bytes.decode("utf-8", errors="replace"): every maximal ill-formed
\* subsequence becomes one U+FFFD.
RECURSIVE Utf8Decode(_)
Utf8Decode(bs) ==
    IF bs = <<>> THEN <<>>
    ELSE LET b == bs[1]
             n == Len(bs)
             lo2 == IF b = 224 THEN 160 ELSE IF b = 240 THEN 144 ELSE 128
             hi2 == IF b = 237 THEN 159 ELSE IF b = 244 THEN 143 ELSE 191
             ok2 == n >= 2 /\ lo2 <= bs[2] /\ bs[2] <= hi2
             ok3 == ok2 /\ n >= 3 /\ IsCont(bs[3])
             ok4 == ok3 /\ n >= 4 /\ IsCont(bs[4])
         IN  IF b < 128 THEN <<b>> \o Utf8Decode(Drop(bs, 1))
             ELSE IF 194 <= b /\ b <= 223
             THEN IF ok2
                  THEN <<(b - 192) * 64 + (bs[2] - 128)>> \o Utf8Decode(Drop(bs, 2))
                  ELSE <<ReplacementChar>> \o Utf8Decode(Drop(bs, 1))
             ELSE IF 224 <= b /\ b <= 239
             THEN IF ok3
                  THEN <<(b - 224) * 4096 + (bs[2] - 128) * 64 + (bs[3] - 128)>>
                       \o Utf8Decode(Drop(bs, 3))
                  ELSE <<ReplacementChar>> \o Utf8Decode(Drop(bs, IF ok2 THEN 2 ELSE 1))
             ELSE IF 240 <= b /\ b <= 244
             THEN IF ok4
                  THEN <<(b - 240) * 262144 + (bs[2] - 128) * 4096
                         + (bs[3] - 128) * 64 + (bs[4] - 128)>>
                       \o Utf8Decode(Drop(bs, 4))
                  ELSE <<ReplacementChar>>
                       \o Utf8Decode(Drop(bs, IF ok3 THEN 3 ELSE IF ok2 THEN 2 ELSE 1))
             ELSE <<ReplacementChar>> \o Utf8Decode(Drop(bs, 1))

\* ------------------------------------------------------ chunk splitter
\* GPT4_SPLIT_PATTERN on texts over Chars.  Of its seven alternatives
\*   '(?i:[sdmt]|ll|ve|re) | [^\r\n\p{L}\p{N}]?+\p{L}+ | \p{N}{1,3}
\*   | ?[^\s\p{L}\p{N}]++[\r\n]* | \s*[\r\n] | \s+(?!\S) | \s+
\* the first, fourth and fifth need an apostrophe, a punctuation character
\* or a line break, which Chars does not hold.
RECURSIVE RunLen(_, _, _)
RunLen(text, p, class) ==
    IF p <= Len(text) /\ text[p] \in class
    THEN 1 + RunLen(text, p + 1, class)
    ELSE 0

\* The length of the match that starts at position p.
MatchLen(text, p) ==
    LET c == text[p]
        lettersAfter == RunLen(text, p + 1, Letters)
        digits == RunLen(text, p, Digits)
        ws == RunLen(text, p, Spaces)
    IN  IF c \in Letters THEN RunLen(text, p, Letters)
        ELSE IF c \notin Digits /\ lettersAfter > 0 THEN 1 + lettersAfter
        ELSE IF c \in Digits THEN (IF digits < 3 THEN digits ELSE 3)
        ELSE IF ws > 1 /\ p + ws <= Len(text) THEN ws - 1
        ELSE ws

\* re.findall(compiled_pattern, text)
RECURSIVE FindAllFrom(_, _)
FindAllFrom(text, p) ==
    IF p > Len(text) THEN <<>>
    ELSE LET n == MatchLen(text, p)
         IN  <<SubSeq(text, p, p + n - 1)>> \o FindAllFrom(text, p + n)

FindAll(text) == FindAllFrom(text, 1)

\* ------------------------------------------- counter and applicator
\* get_stats(ids, counts): for every index j, counts[(ids[j], ids[j+1])] += 1,
\* in place, a new pair entering the dict in the order of the scan.
RECURSIVE get_stats_from(_, _, _)
get_stats_from(s, j, counts) ==
    IF j >= Len(s) THEN counts
    ELSE LET pair == <<s[j], s[j + 1]>>
             n == IF DictHas(counts, pair) THEN DictGet(counts, pair) ELSE 0
         IN  get_stats_from(s, j + 1, DictPut(counts, pair, n + 1))

get_stats(s, counts) == get_stats_from(s, 1, counts)

\* merge(ids, pair, idx): one left-to-right scan that replaces every
\* non-overlapping occurrence of pair by idx.
RECURSIVE merge(_, _, _)
merge(s, pair, idx) ==
    IF s = <<>> THEN <<>>
    ELSE IF Len(s) >= 2 /\ s[1] = pair[1] /\ s[2] = pair[2]
         THEN <<idx>> \o merge(Drop(s, 2), pair, idx)
         ELSE <<s[1]>> \o merge(Drop(s, 1), pair, idx)

\* ----------------------------------------------------------- the state
VARIABLES
    pattern,      \* self.pattern is set (regex=True)
    self_merges,  \* self.merges
    self_vocab,   \* self.vocab
    pc,           \* "idle" between calls; the place of the running call:
                  \* its loop, "returned" or "raised" as it ends
    op,           \* the running call, "none" between calls
    err,          \* the exception the running call raised, or "none"
    text,         \* train's and encode's argument
    vocab_size, num_merges, ids, merges, vocab, i,   \* train's locals
    text_chunks, enc_ids, k, chunk_ids, iters, ret,  \* encode's and _encode_chunk's
    d_ids, d_text                                    \* decode's argument and result

selfv == <<pattern, self_merges, self_vocab>>
trainv == <<vocab_size, num_merges, ids, merges, vocab, i>>
encv == <<text_chunks, enc_ids, k, chunk_ids, iters, ret>>
decv == <<d_ids, d_text>>
vars == <<selfv, pc, op, err, text, trainv, encv, decv>>

\* The vocabulary dict, int -> bytes, held as the number n of its leading
\* entries idx: bytes([idx]), idx in range(n), that were never assigned
\* again, and the entries assigned since.
VocabKeys(v) == 0..(v.bytes - 1) \cup DOMAIN v.put
VocabGet(v, idx) == IF idx \in DOMAIN v.put THEN v.put[idx] ELSE <<idx>>
NoVocab == [bytes |-> 0, put |-> <<>>]

\* {idx: bytes([idx]) for idx in range(256)}
ByteVocab == [bytes |-> NumBytes, put |-> <<>>]

NoTrain ==
    /\ vocab_size' = 0 /\ num_merges' = 0 /\ ids' = <<>>
    /\ merges' = EmptyDict /\ vocab' = NoVocab /\ i' = 0
NoEncode ==
    /\ text_chunks' = <<>> /\ enc_ids' = <<>> /\ k' = 0
    /\ chunk_ids' = <<>> /\ iters' = 0 /\ ret' = <<>>
NoDecode == d_ids' = <<>> /\ d_text' = <<>>

\* Tokenizer.__init__: no merges, and the vocabulary of the 256 bytes
TokenizerInit ==
    /\ self_merges = EmptyDict
    /\ self_vocab = ByteVocab

\* BasicTokenizer.__init__(regex), and no call under way
Init ==
    /\ TokenizerInit
    /\ pattern \in BOOLEAN
    /\ pc = "idle" /\ op = "none" /\ err = "none" /\ text = <<>>
    /\ vocab_size = 0 /\ num_merges = 0 /\ ids = <<>>
    /\ merges = EmptyDict /\ vocab = NoVocab /\ i = 0
    /\ text_chunks = <<>> /\ enc_ids = <<>> /\ k = 0
    /\ chunk_ids = <<>> /\ iters = 0 /\ ret = <<>>
    /\ d_ids = <<>> /\ d_text = <<>>

\* ---------------------------------------------------------------- train
\* The input text preprocessing: a list of byte lists, one per chunk, in
\* pattern mode, one flat byte list otherwise.
TrainIds(pat, t) ==
    IF pat
    THEN LET chunks == FindAll(t)
         IN  [c \in 1..Len(chunks) |-> Utf8Encode(chunks[c])]
    ELSE Utf8Encode(t)

\* The pair counts of one iteration.
RECURSIVE ChunkStats(_, _, _)
ChunkStats(cs, c, stats) ==
    IF c > Len(cs) THEN stats
    ELSE ChunkStats(cs, c + 1, get_stats(cs[c], stats))

\* A counter that is handed the chunks joined into one list.
TrainStatsFlat(pat, s) == get_stats(IF pat THEN Flatten(s) ELSE s, EmptyDict)

TrainStats(pat, s) ==
    IF pat THEN ChunkStats(s, 1, EmptyDict) ELSE get_stats(s, EmptyDict)

\* A max that keeps the last of the keys of the greatest count.
MaxKeyLast(stats) ==
    LET best == CHOOSE j \in 1..Len(stats) :
                    /\ \A m \in 1..Len(stats) : stats[m][2] <= stats[j][2]
                    /\ \A m \in (j + 1)..Len(stats) : stats[m][2] < stats[j][2]
    IN  stats[best][1]

\* max(stats, key=stats.get): the first key, in the dict's order, among
\* those of the greatest count.
MaxKey(stats) ==
    LET best == CHOOSE j \in 1..Len(stats) :
                    /\ \A m \in 1..Len(stats) : stats[m][2] <= stats[j][2]
                    /\ \A m \in 1..(j - 1) : stats[m][2] < stats[j][2]
    IN  stats[best][1]

\* An id that is one too high.
NewIdOff(n) == NumBytes + n + 1

\* idx = 256 + i
NewId(n) == NumBytes + n

\* Replacing the pair in ids.
TrainMerge(pat, s, pair, idx) ==
    IF pat THEN [c \in 1..Len(s) |-> merge(s[c], pair, idx)]
    ELSE merge(s, pair, idx)

\* The two halves concatenated the wrong way round.
VocabPutSwapped(v, pair, idx) ==
    [v EXCEPT !.put = [t \in DOMAIN v.put \cup {idx} |->
                          IF t = idx
                          THEN VocabGet(v, pair[2]) \o VocabGet(v, pair[1])
                          ELSE v.put[t]]]

\* The right half left out.
VocabPutLeft(v, pair, idx) ==
    [v EXCEPT !.put = [t \in DOMAIN v.put \cup {idx} |->
                          IF t = idx THEN VocabGet(v, pair[1]) ELSE v.put[t]]]

\* vocab[idx] = vocab[pair[0]] + vocab[pair[1]]
VocabPut(v, pair, idx) ==
    [v EXCEPT !.put = [t \in DOMAIN v.put \cup {idx} |->
                          IF t = idx
                          THEN VocabGet(v, pair[1]) \o VocabGet(v, pair[2])
                          ELSE v.put[t]]]

\* An assertion that lets 255 through.
TrainArgOkOff(vs) == vs >= NumBytes - 1

\* assert vocab_size >= 256
TrainArgOk(vs) == vs >= NumBytes

\* train(text, vocab_size) up to its loop
TrainCall(t, vs) ==
    /\ pc = "idle"
    /\ op' = "train" /\ text' = t
    /\ UNCHANGED <<selfv, encv, decv>>
    /\ IF TrainArgOk(vs)
       THEN /\ vocab_size' = vs
            /\ num_merges' = vs - NumBytes
            /\ ids' = TrainIds(pattern, t)
            /\ merges' = EmptyDict
            /\ vocab' = ByteVocab
            /\ i' = 0
            /\ pc' = "train" /\ err' = "none"
       ELSE /\ vocab_size' = vs
            /\ num_merges' = 0 /\ ids' = <<>>
            /\ merges' = EmptyDict /\ vocab' = NoVocab /\ i' = 0
            /\ pc' = "raised" /\ err' = "AssertionError"

\* One iteration of "for i in range(num_merges)"; max() of an empty dict
\* raises ValueError.
TrainIter ==
    /\ pc = "train" /\ i < num_merges
    /\ LET stats == TrainStats(pattern, ids)
       IN  IF stats = EmptyDict
           THEN /\ pc' = "raised" /\ err' = "ValueError"
                /\ UNCHANGED <<ids, merges, vocab, i>>
           ELSE LET pair == MaxKey(stats)
                    idx == NewId(i)
                IN  /\ ids' = TrainMerge(pattern, ids, pair, idx)
                    /\ merges' = DictPut(merges, pair, idx)
                    /\ vocab' = VocabPut(vocab, pair, idx)
                    /\ i' = i + 1
                    /\ UNCHANGED <<pc, err>>
    /\ UNCHANGED <<selfv, op, text, vocab_size, num_merges, encv, decv>>

\* The loop is over: self.merges = merges; self.vocab = vocab
TrainStore ==
    /\ pc = "train" /\ i >= num_merges
    /\ self_merges' = merges
    /\ self_vocab' = vocab
    /\ pc' = "returned"
    /\ UNCHANGED <<pattern, op, err, text, trainv, encv, decv>>

\* --------------------------------------------------------------- encode
\* A selection of the first pair of the sequence that is in merges.
MinKeyFirstKnown(stats, mrg) ==
    LET known == {j \in 1..Len(stats) : DictHas(mrg, stats[j][1])}
    IN  IF known = {} THEN stats[1][1]
        ELSE stats[CHOOSE j \in known : \A m \in known : j <= m][1]

\* A selection by count: the most frequent pair that is in merges.
MinKeyByCount(stats, mrg) ==
    LET known == {j \in 1..Len(stats) : DictHas(mrg, stats[j][1])}
    IN  IF known = {} THEN stats[1][1]
        ELSE stats[CHOOSE j \in known :
                       /\ \A m \in known : stats[m][2] <= stats[j][2]
                       /\ \A m \in known : m < j => stats[m][2] < stats[j][2]][1]

\* min(stats, key=lambda p: self.merges.get(p, float("inf"))): the first
\* key, in the dict's order, among those of the lowest merge index; when no
\* key is in merges every key has rank inf and the first key is returned.
MinKey(stats, mrg) ==
    LET known == {j \in 1..Len(stats) : DictHas(mrg, stats[j][1])}
        rank(j) == DictGet(mrg, stats[j][1])
    IN  IF known = {} THEN stats[1][1]
        ELSE stats[CHOOSE j \in known :
                       /\ \A m \in known : rank(j) <= rank(m)
                       /\ \A m \in known : m < j => rank(j) < rank(m)][1]

\* A selection among the merges learned, not among the pairs present.
EncodePairOfTable(s, mrg) ==
    IF mrg = EmptyDict THEN get_stats(s, EmptyDict)[1][1]
    ELSE mrg[CHOOSE j \in 1..Len(mrg) : \A m \in 1..Len(mrg) : mrg[j][2] <= mrg[m][2]][1]

\* The pair an iteration of _encode_chunk picks.
EncodePair(s, mrg) == MinKey(get_stats(s, EmptyDict), mrg)

\* while len(ids) >= 2 ... if pair not in self.merges: break
EncodeStops(s, mrg) ==
    IF Len(s) < 2 THEN TRUE ELSE ~DictHas(mrg, EncodePair(s, mrg))

\* idx = self.merges[pair]; ids = merge(ids, pair, idx)
EncodeStep(s, mrg) ==
    LET pair == EncodePair(s, mrg) IN merge(s, pair, DictGet(mrg, pair))

\* _encode_chunk, all its iterations
RECURSIVE encode_chunk(_, _)
encode_chunk(s, mrg) ==
    IF EncodeStops(s, mrg) THEN s ELSE encode_chunk(EncodeStep(s, mrg), mrg)

\* The chunks encode works on.
EncodeChunks(pat, t) == IF pat THEN FindAll(t) ELSE <<t>>

\* encode, all its iterations
encode(pat, mrg, t) ==
    LET chunks == EncodeChunks(pat, t)
    IN  Flatten([c \in 1..Len(chunks) |-> encode_chunk(Utf8Encode(chunks[c]), mrg)])

\* encode(text) up to its loop over the chunks
EncodeCall(t) ==
    /\ pc = "idle"
    /\ op' = "encode" /\ text' = t /\ err' = "none"
    /\ text_chunks' = EncodeChunks(pattern, t)
    /\ enc_ids' = <<>> /\ k' = 0
    /\ chunk_ids' = <<>> /\ iters' = 0 /\ ret' = <<>>
    /\ pc' = "encode"
    /\ UNCHANGED <<selfv, trainv, decv>>

\* for chunk in text_chunks: the call of _encode_chunk(chunk) up to its loop
EncodeNextChunk ==
    /\ pc = "encode" /\ k < Len(text_chunks)
    /\ chunk_ids' = Utf8Encode(text_chunks[k + 1])
    /\ iters' = 0
    /\ pc' = "encode_chunk"
    /\ UNCHANGED <<selfv, op, err, text, trainv, text_chunks, enc_ids, k, ret, decv>>

\* One iteration of _encode_chunk's loop that merges.
EncodeChunkIter ==
    /\ pc = "encode_chunk"
    /\ ~EncodeStops(chunk_ids, self_merges)
    /\ chunk_ids' = EncodeStep(chunk_ids, self_merges)
    /\ iters' = iters + 1
    /\ UNCHANGED <<selfv, pc, op, err, text, trainv, text_chunks, enc_ids, k, ret, decv>>

\* _encode_chunk leaves its loop and returns: ids.extend(...)
EncodeChunkReturn ==
    /\ pc = "encode_chunk"
    /\ EncodeStops(chunk_ids, self_merges)
    /\ enc_ids' = enc_ids \o chunk_ids
    /\ k' = k + 1
    /\ pc' = "encode"
    /\ UNCHANGED <<selfv, op, err, text, trainv, text_chunks, chunk_ids, iters, ret, decv>>

\* return ids
EncodeReturn ==
    /\ pc = "encode" /\ k >= Len(text_chunks)
    /\ ret' = enc_ids
    /\ pc' = "returned"
    /\ UNCHANGED <<selfv, op, err, text, trainv, text_chunks, enc_ids, k, chunk_ids, iters, decv>>

\* --------------------------------------------------------------- decode
\* b"".join(self.vocab[idx] for idx in ids)
DecodeBytes(v, s) == Flatten([j \in 1..Len(s) |-> VocabGet(v, s[j])])

\* decode(ids): self.vocab[idx] raises KeyError for an id that is no key
DecodeResult(v, s) ==
    IF \E j \in 1..Len(s) : s[j] \notin VocabKeys(v)
    THEN [err |-> "KeyError", text |-> <<>>]
    ELSE [err |-> "none", text |-> Utf8Decode(DecodeBytes(v, s))]

\* decode(encode(text)): decode of the list encode has just returned
DecodeEncoded ==
    /\ pc = "returned" /\ op = "encode"
    /\ op' = "roundtrip"
    /\ d_ids' = ret
    /\ d_text' = DecodeResult(self_vocab, ret).text
    /\ err' = DecodeResult(self_vocab, ret).err
    /\ pc' = IF err' = "none" THEN "returned" ELSE "raised"
    /\ UNCHANGED <<selfv, text, trainv, encv>>

\* Token ids decode is also called with: lone bytes of a two-byte character
\* and ids at and above 256.
DecodeInputs ==
    {<<t>> : t \in {169, 195} \cup NumBytes..(NumBytes + MaxMerges)} \cup {<<195, 169, 49>>}

\* decode(ids) of any other list
DecodeCall(s) ==
    /\ pc = "idle"
    /\ op' = "decode"
    /\ d_ids' = s
    /\ d_text' = DecodeResult(self_vocab, s).text
    /\ err' = DecodeResult(self_vocab, s).err
    /\ pc' = IF err' = "none" THEN "returned" ELSE "raised"
    /\ UNCHANGED <<selfv, text, trainv, encv>>

\* The call is over, by a return or by an exception the caller catches: its
\* frame is gone, the object's fields stay.
Return ==
    /\ pc \in {"returned", "raised"}
    /\ pc' = "idle" /\ op' = "none" /\ err' = "none" /\ text' = <<>>
    /\ NoTrain /\ NoEncode /\ NoDecode
    /\ UNCHANGED selfv

\* --------------------------------------------------------- the program
\* The calls a client makes, with their arguments.
Train == pc = "idle" /\ \E t \in TextsUpTo(MaxTrainLen), vs \in VocabSizes : TrainCall(t, vs)
Encode == pc = "idle" /\ \E t \in TextsUpTo(MaxTextLen) : EncodeCall(t)
Decode == pc = "idle" /\ \E s \in DecodeInputs : DecodeCall(s)

Next ==
    \/ Train
    \/ TrainIter
    \/ TrainStore
    \/ Encode
    \/ EncodeNextChunk
    \/ EncodeChunkIter
    \/ EncodeChunkReturn
    \/ EncodeReturn
    \/ DecodeEncoded
    \/ Decode
    \/ Return

Spec == Init /\ [][Next]_vars

\* ---------------------------------------------------------- properties
\* train's ids as a list of chunks in both modes
Chunked(s) == IF pattern THEN s ELSE <<s>>

\* The adjacent pairs of a list of chunks, in the order of the scan.
ScanPairs(cs) ==
    Flatten([c \in 1..Len(cs) |->
                [j \in 1..(Len(cs[c]) - 1) |-> <<cs[c][j], cs[c][j + 1]>>]])
CountIn(ps, q) == Cardinality({n \in 1..Len(ps) : ps[n] = q})
FirstIn(ps, q) == CHOOSE n \in 1..Len(ps) : ps[n] = q /\ \A m \in 1..(n - 1) : ps[m] # q
PairSet(ps) == {ps[n] : n \in 1..Len(ps)}

\* The adjacent pairs of s that are keys of m.
KnownPairs(s, m) == {q \in PairSet(ScanPairs(<<s>>)) : DictHas(m, q)}

\* train ran past its assertion
InTrain == op = "train" /\ err # "AssertionError"

\* C1: decode(encode(T)) is T: the expansions of the ids encode returned,
\* concatenated, are T's bytes, and decode returns T without an error.
C1_RoundTrip ==
    op = "roundtrip" =>
        /\ err = "none"
        /\ DecodeBytes(self_vocab, ret) = Utf8Encode(text)
        /\ d_text = text

C1_Witness ==
    /\ op = "roundtrip" /\ pattern
    /\ Len(text_chunks) >= 2
    /\ \E j \in 1..Len(text) : text[j] = 233
    /\ \E j \in 1..Len(ret) : ret[j] >= NumBytes
    /\ d_text = text

\* C2: a training call that ends with fewer iterations done than asked for
\* (the pair counts were empty) returns without an error and has stored a
\* merge table of fewer than vocab_size - 256 merges.
C2_EarlyTermination ==
    (op = "train" /\ pc \in {"returned", "raised"}
        /\ TrainArgOk(vocab_size) /\ i < num_merges) =>
        /\ pc = "returned" /\ err = "none"
        /\ self_merges = merges
        /\ Len(self_merges) < vocab_size - NumBytes

\* VocabKeys(v) = range(n) + extra, read off v's two parts: no key of
\* range(n) is missing, and no key lies outside range(n) and extra.
VocabKeysAre(v, n, extra) ==
    /\ \A idx \in v.bytes..(n - 1) : idx \in DOMAIN v.put
    /\ \A idx \in n..(v.bytes - 1) : idx \in extra
    /\ \A idx \in DOMAIN v.put : idx \in 0..(n - 1) \/ idx \in extra
    /\ \A idx \in extra : idx \in VocabKeys(v)

\* VocabGet(v, idx) = <<idx>> for every idx in range(n) (only an entry that
\* was assigned can differ).
VocabBytesAre(v, n) ==
    \A idx \in DOMAIN v.put : idx \in 0..(n - 1) => v.put[idx] = <<idx>>

\* The vocabulary invariant of a vocabulary v and a merge table m.
VocabInvariant(v, m) ==
    LET bytes == 0..(NumBytes - 1) IN
    /\ VocabKeysAre(v, NumBytes, {m[j][2] : j \in 1..Len(m)})
    /\ VocabBytesAre(v, NumBytes)
    /\ \A j \in 1..Len(m) :
          LET pair == m[j][1]
              idx == m[j][2]
              learned == {m[h][2] : h \in 1..(j - 1)}
          IN  /\ pair[1] \in bytes \/ pair[1] \in learned
              /\ pair[2] \in bytes \/ pair[2] \in learned
              /\ pair[1] \in VocabKeys(v) /\ pair[2] \in VocabKeys(v)
              /\ VocabGet(v, idx) = VocabGet(v, pair[1]) \o VocabGet(v, pair[2])

\* C3: the vocabulary invariant holds of train's vocab and merges before and
\* after every iteration of its loop, and of the stored self.vocab and
\* self.merges at all times.
C3_VocabularyInvariant ==
    /\ VocabInvariant(self_vocab, self_merges)
    /\ InTrain => VocabInvariant(vocab, merges)

C3_Witness ==
    /\ pc = "train" /\ i = 2
    /\ merges[2][1][1] >= NumBytes
    /\ Len(VocabGet(vocab, merges[2][2])) >= 3

\* The merge table m holds n distinct pairs with the ids 256 .. 256+n-1 in
\* the order they were recorded.
IdsInOrder(m, n) ==
    /\ Len(m) = n
    /\ \A j \in 1..Len(m) : m[j][2] = NumBytes + j - 1
    /\ \A j, h \in 1..Len(m) : j # h => m[j][1] # m[h][1]

\* C4: after i iterations train's merges holds i distinct pairs, the j-th
\* recorded with id 256 + j - 1; so does the stored table.
C4_IdMonotonicity ==
    /\ InTrain => IdsInOrder(merges, i)
    /\ IdsInOrder(self_merges, Len(self_merges))

C4_Witness == pattern /\ pc = "train" /\ i = 2 /\ Len(ids) >= 2

\* C5: in pattern mode train keeps one token list per chunk that expands to
\* that chunk's bytes, counts a pair as often as it occurs inside the chunks
\* (a pair across a boundary is not counted), and encode's result is the
\* encodings of the chunks, each on its own, in chunk order.
C5_ChunkIsolation ==
    pattern =>
        /\ InTrain =>
              LET chunks == FindAll(text)
                  stats == TrainStats(pattern, ids)
                  ps == ScanPairs(ids)
              IN  /\ Len(ids) = Len(chunks)
                  /\ \A c \in 1..Len(ids) : DecodeBytes(vocab, ids[c]) = Utf8Encode(chunks[c])
                  /\ {stats[j][1] : j \in 1..Len(stats)} = PairSet(ps)
                  /\ \A j \in 1..Len(stats) : stats[j][2] = CountIn(ps, stats[j][1])
        /\ op \in {"encode", "roundtrip"} =>
              /\ text_chunks = FindAll(text)
              /\ k <= Len(text_chunks)
              /\ enc_ids = Flatten([c \in 1..k |->
                                       encode_chunk(Utf8Encode(text_chunks[c]), self_merges)])
              /\ pc \in {"returned", "raised"} => k = Len(text_chunks) /\ ret = enc_ids

\* A pair that was merged inside a chunk also lies across a chunk boundary.
C5_Witness ==
    /\ pattern /\ pc = "train" /\ i >= 1
    /\ LET b == TrainIds(pattern, text)
       IN  \E c \in 1..(Len(b) - 1) : DictHas(merges, <<b[c][Len(b[c])], b[c + 1][1]>>)

\* C6: train with vocab_size < 256 raises at its assertion, before any merge,
\* and self.merges and self.vocab stay as they were.
C6_InvalidVocabSize ==
    [][/\ (pc = "idle" /\ op' = "train" /\ vocab_size' < NumBytes) =>
            /\ pc' = "raised" /\ err' = "AssertionError"
            /\ merges' = EmptyDict /\ i' = 0
            /\ self_merges' = self_merges /\ self_vocab' = self_vocab
       /\ pc = "raised" => (self_merges' = self_merges /\ self_vocab' = self_vocab)]_vars

C6_Witness ==
    /\ op = "train" /\ pc = "raised" /\ err = "AssertionError"
    /\ vocab_size < NumBytes
    /\ self_merges # EmptyDict

\* C7: the pair an iteration records has the greatest count among the
\* adjacent pairs of the chunks and, among the pairs of that count, the
\* earliest first occurrence in the scan.
C7_MaxPairFirstTie ==
    [][(pc = "train" /\ i' = i + 1) =>
          LET ps == ScanPairs(Chunked(ids))
              new == {j \in 1..Len(merges') : merges'[j][2] = NumBytes + i}
          IN  /\ new # {}
              /\ \A j \in new :
                    LET pair == merges'[j][1]
                    IN  /\ pair \in PairSet(ps)
                        /\ \A q \in PairSet(ps) :
                              /\ CountIn(ps, q) <= CountIn(ps, pair)
                              /\ CountIn(ps, q) = CountIn(ps, pair)
                                    => FirstIn(ps, pair) <= FirstIn(ps, q)]_vars

\* The first merge was picked among several pairs of the greatest count.
C7_Witness ==
    /\ pc = "train" /\ i = 1 /\ Len(merges) = 1
    /\ LET ps == ScanPairs(Chunked(TrainIds(pattern, text)))
       IN  \E q \in PairSet(ps) :
              /\ q # merges[1][1]
              /\ CountIn(ps, q) = CountIn(ps, merges[1][1])

\* C8: an iteration of _encode_chunk merges the pair of the lowest id among
\* the adjacent pairs that are in self.merges; the loop is left only with
\* fewer than 2 tokens or with no such pair; and with the merges
\* (a,b)->256, (256,c)->257 the chunk a,b,c is returned as [257].
C8_EncodePriority ==
    [][pc = "encode_chunk" =>
          LET known == KnownPairs(chunk_ids, self_merges)
              b == Utf8Encode(text_chunks[k + 1])
          IN  /\ pc' = "encode_chunk" =>
                    \E q \in known :
                       /\ \A r \in known : DictGet(self_merges, q) <= DictGet(self_merges, r)
                       /\ chunk_ids' = merge(chunk_ids, q, DictGet(self_merges, q))
              /\ pc' = "encode" =>
                    /\ Len(chunk_ids) < 2 \/ known = {}
                    /\ enc_ids' = enc_ids \o chunk_ids
                    /\ (/\ Len(b) = 3
                        /\ self_merges = << <<<<b[1], b[2]>>, NumBytes>>,
                                            <<<<NumBytes, b[3]>>, NumBytes + 1>> >>)
                          => chunk_ids = <<NumBytes + 1>>]_vars

C8_Witness ==
    /\ op = "encode" /\ pc = "encode" /\ k = 1
    /\ enc_ids = <<NumBytes + 1>>
    /\ LET b == Utf8Encode(text_chunks[1])
       IN  /\ Len(b) = 3
           /\ self_merges = << <<<<b[1], b[2]>>, NumBytes>>,
                               <<<<NumBytes, b[3]>>, NumBytes + 1>> >>

\* Every merge of m applied once to s, in increasing id order.
RECURSIVE ApplyInIdOrder(_, _, _)
ApplyInIdOrder(s, m, idx) ==
    IF \A j \in 1..Len(m) : m[j][2] < idx THEN s
    ELSE LET at == {j \in 1..Len(m) : m[j][2] = idx}
         IN  IF at = {} THEN ApplyInIdOrder(s, m, idx + 1)
             ELSE ApplyInIdOrder(merge(s, m[CHOOSE j \in at : TRUE][1], idx), m, idx + 1)

\* C9: _encode_chunk returns what applying every merge once in id order
\* gives, and encode of the training text returns the tokens train ended
\* with.
C9_EncodeReproducesTraining ==
    /\ (pc = "encode_chunk" /\ EncodeStops(chunk_ids, self_merges)) =>
          chunk_ids = ApplyInIdOrder(Utf8Encode(text_chunks[k + 1]), self_merges, NumBytes)
    /\ (op = "encode" /\ pc = "returned") => ret = encode(pattern, self_merges, text)
    /\ (op = "train" /\ pc = "returned") =>
          encode(pattern, self_merges, text) = Flatten(Chunked(ids))

\* A chunk with two pairs of the merge table side by side has been merged.
C9_Witness ==
    /\ pc = "encode_chunk" /\ iters >= 1
    /\ EncodeStops(chunk_ids, self_merges)
    /\ Cardinality(KnownPairs(Utf8Encode(text_chunks[k + 1]), self_merges)) >= 2

\* C10: every merging iteration of _encode_chunk shortens the sequence, a
\* chunk of n bytes takes at most n - 1 of them, and the sequence is never
\* longer than n.
C10_EncodeTermination ==
    [][pc = "encode_chunk" =>
          LET n == Len(Utf8Encode(text_chunks[k + 1]))
          IN  /\ Len(chunk_ids) <= n
              /\ pc' = "encode_chunk" =>
                    /\ Len(chunk_ids') < Len(chunk_ids)
                    /\ iters' = iters + 1
                    /\ n >= 1 /\ iters' <= n - 1
              /\ pc' = "encode" => Len(enc_ids') <= Len(enc_ids) + n]_vars

C10_Witness ==
    /\ pc = "encode_chunk" /\ iters = 2
    /\ Len(Utf8Encode(text_chunks[k + 1])) = 3
    /\ Len(chunk_ids) = 1

====
